---- MODULE Spec2Model ----
(***************************************************************************)
(* Model of the scraper / conversion-extraction service of src/main.py.    *)
(*                                                                         *)
(* Text is modelled at character level: a Python str is a sequence of      *)
(* one-character strings, so that the regular expressions p_eq / p_ratio,  *)
(* str.strip, str.title and re.sub are computed the way the code computes  *)
(* them.  A float is modelled by the exact rational it stands for, a pair  *)
(* <<numerator, denominator>> in lowest terms (the amounts of the model    *)
(* are integers or halves, which binary floating point represents and      *)
(* divides to distinct results).                                           *)
(***************************************************************************)
EXTENDS Integers, Sequences, FiniteSets, TLC

\* ------------------------------------------------------------------------
\* Characters
\* ------------------------------------------------------------------------

LowerSeq == << "a", "b", "c", "d", "e", "f", "g", "h", "i", "j", "k", "l", "m",
               "n", "o", "p", "q", "r", "s", "t", "u", "v", "w", "x", "y", "z" >>

UpperSeq == << "A", "B", "C", "D", "E", "F", "G", "H", "I", "J", "K", "L", "M",
               "N", "O", "P", "Q", "R", "S", "T", "U", "V", "W", "X", "Y", "Z" >>

DigitSeq == << "0", "1", "2", "3", "4", "5", "6", "7", "8", "9" >>

Lower == { LowerSeq[i] : i \in DOMAIN LowerSeq }

Upper == { UpperSeq[i] : i \in DOMAIN UpperSeq }

\* the regex class [A-Za-z]
Letter == Lower \cup Upper

\* the regex class \d
Digit == { DigitSeq[i] : i \in DOMAIN DigitSeq }

\* the regex class \s, and the characters str.strip() removes
WS == { " ", "\n", "\t" }

\* the regex class [A-Za-z \-]
NameChar == Letter \cup { " ", "-" }

\* the one-character strings U+00D7 and U+2192 of the patterns
TimesSign == "TIMES"

Arrow == "ARROW"

ToLower(c) == IF c \in Upper
              THEN LowerSeq[CHOOSE i \in DOMAIN UpperSeq : UpperSeq[i] = c]
              ELSE c

ToUpper(c) == IF c \in Lower
              THEN UpperSeq[CHOOSE i \in DOMAIN LowerSeq : LowerSeq[i] = c]
              ELSE c

DigitVal(c) == (CHOOSE i \in DOMAIN DigitSeq : DigitSeq[i] = c) - 1

SetMax(S) == CHOOSE x \in S : \A y \in S : y <= x

SetMin(S) == CHOOSE x \in S : \A y \in S : x <= y

\* the character at position p of l, "" past the end
At(l, p) == IF p >= 1 /\ p <= Len(l) THEN l[p] ELSE ""

\* end (exclusive) of the longest run of characters of S that starts at p
RECURSIVE RunEnd(_, _, _)
RunEnd(l, p, S) == IF p <= Len(l) /\ l[p] \in S THEN RunEnd(l, p + 1, S) ELSE p

\* str.strip()
RECURSIVE LStrip(_)
LStrip(l) == IF l # << >> /\ Head(l) \in WS THEN LStrip(Tail(l)) ELSE l

RECURSIVE RStrip(_)
RStrip(l) == IF l # << >> /\ l[Len(l)] \in WS
             THEN RStrip(SubSeq(l, 1, Len(l) - 1))
             ELSE l

Strip(l) == RStrip(LStrip(l))

\* ------------------------------------------------------------------------
\* Regular expressions: re.search with Python's backtracking priorities.
\* A search returns [ok |-> FALSE], or [ok |-> TRUE] with the groups found.
\* ------------------------------------------------------------------------

NoMatch == [ok |-> FALSE]

\* ends of \d+(?:[.,]\d+)? started at p
NumEnds(l, p) ==
    LET d == RunEnd(l, p, Digit)
        f == RunEnd(l, d + 1, Digit)
    IN  IF d = p THEN {}
        ELSE ((p + 1) .. d) \cup
             (IF At(l, d) \in { ".", "," } /\ f > d + 1 THEN (d + 2) .. f ELSE {})

\* ends of \s* started at p
WsEnds(l, p) == p .. RunEnd(l, p, WS)

\* ends of (?:x|TIMES)? started at p, case-insensitively
XEnds(l, p) == { p } \cup (IF At(l, p) \in { "x", "X", TimesSign } THEN { p + 1 } ELSE {})

\* ends of [A-Za-z][A-Za-z \-]* started at p
NameEnds(l, p) ==
    IF At(l, p) \in Letter THEN (p + 1) .. RunEnd(l, p + 1, NameChar) ELSE {}

\* the one end a greedy quantifier takes when nothing follows it
Longest(ends) == IF ends = {} THEN {} ELSE { SetMax(ends) }

\* ends of one character of the class S
ClassEnds(l, p, S) == IF At(l, p) \in S THEN { p + 1 } ELSE {}

IsTo(l, p) == ToLower(At(l, p)) = "t" /\ ToLower(At(l, p + 1)) = "o"

\* (?:=|=>|ARROW|to): per alternative, in this order, its end (0: no match)
EqSepAlts(l, p) ==
    << IF At(l, p) = "=" THEN p + 1 ELSE 0,
       IF At(l, p) = "=" /\ At(l, p + 1) = ">" THEN p + 2 ELSE 0,
       IF At(l, p) = Arrow THEN p + 1 ELSE 0,
       IF IsTo(l, p) THEN p + 2 ELSE 0 >>

\* (?:to|ARROW|->|:), likewise
RatioSepAlts(l, p) ==
    << IF IsTo(l, p) THEN p + 2 ELSE 0,
       IF At(l, p) = Arrow THEN p + 1 ELSE 0,
       IF At(l, p) = "-" /\ At(l, p + 1) = ">" THEN p + 2 ELSE 0,
       IF At(l, p) = ":" THEN p + 1 ELSE 0 >>

\* A way of matching is the tuple of the positions reached after each element
\* of the pattern (and, for an alternation, the number of the alternative
\* taken before the position).  Extend: the ways P, each continued by one more
\* element, ends[p] being the ends of the element started at p.
Extend(P, ends) ==
    UNION { { Append(pre, e) : e \in ends[pre[Len(pre)]] } : pre \in P }

ExtendAlt(P, alts) ==
    UNION { { pre \o << k, alts[pre[Len(pre)]][k] >> :
                k \in { k \in 1 .. 4 : alts[pre[Len(pre)]][k] # 0 } } : pre \in P }

\* the positions of a line, the one past its end included
Pos(l) == 1 .. (Len(l) + 1)

\* The backtracking matcher returns the first way in its order of trial: the
\* leftmost start, then per element the longest end (greedy quantifiers) or
\* the first alternative.  sign[n] = -1 where the smaller value is tried first.
RECURSIVE TriedBefore(_, _, _, _)
TriedBefore(a, b, sign, n) ==
    \/ n > Len(a)
    \/ sign[n] * a[n] > sign[n] * b[n]
    \/ (a[n] = b[n] /\ TriedBefore(a, b, sign, n + 1))

FirstTried(P, sign) == CHOOSE a \in P : \A b \in P : TriedBefore(a, b, sign, 1)

Sub(l, p, e) == SubSeq(l, p, e - 1)

\* p_eq (line 162): the ways it matches l.  Positions: 1 start, 2 a1, 3 \s*,
\* 4 (?:x|TIMES)?, 5 \s*, 6 s, 7 \s*, 8-9 the separator, 10 \s*, 11 a2,
\* 12 \s*, 13 t
EqWays(l) ==
    LET w1 == { << i >> : i \in { i \in 1 .. Len(l) : l[i] \in Digit } }
        w2 == Extend(w1, [p \in Pos(l) |-> NumEnds(l, p)])
        w3 == Extend(w2, [p \in Pos(l) |-> WsEnds(l, p)])
        w4 == Extend(w3, [p \in Pos(l) |-> XEnds(l, p)])
        w5 == Extend(w4, [p \in Pos(l) |-> WsEnds(l, p)])
        w6 == Extend(w5, [p \in Pos(l) |-> NameEnds(l, p)])
        w7 == Extend(w6, [p \in Pos(l) |-> WsEnds(l, p)])
        w9 == ExtendAlt(w7, [p \in Pos(l) |-> EqSepAlts(l, p)])
        w10 == Extend(w9, [p \in Pos(l) |-> WsEnds(l, p)])
        w11 == Extend(w10, [p \in Pos(l) |-> NumEnds(l, p)])
        w12 == Extend(w11, [p \in Pos(l) |-> WsEnds(l, p)])
    IN  Extend(w12, [p \in Pos(l) |-> Longest(NameEnds(l, p))])

EqOrder == << -1, 1, 1, 1, 1, 1, 1, -1, 1, 1, 1, 1, 1 >>

\* the match object: its groups, and lastgroup, the name of the last group closed
EqMatch(l, w) ==
    [ok |-> TRUE, a1 |-> Sub(l, w[1], w[2]), s |-> Sub(l, w[5], w[6]),
     a2 |-> Sub(l, w[10], w[11]), t |-> Sub(l, w[12], w[13]), lastgroup |-> "t"]

\* p_eq.search(line)
p_eq_search(l) ==
    IF EqWays(l) = {} THEN NoMatch
    ELSE CHOOSE m \in { EqMatch(l, w) : w \in { FirstTried(EqWays(l), EqOrder) } } : TRUE

\* p_ratio (line 165).  Positions: 1 start, 2 s, 3 \s*, 4-5 the separator,
\* 6 the line break, 7 \s*, 8 t, 9 \s*, 10 [:\- ], 11 \s*, 12 a1, 13 \s*,
\* 14 [:/], 15 \s*, 16 a2
RatioWays(l) ==
    LET w1 == { << i >> : i \in { i \in 1 .. Len(l) : l[i] \in Letter } }
        w2 == Extend(w1, [p \in Pos(l) |-> NameEnds(l, p)])
        w3 == Extend(w2, [p \in Pos(l) |-> WsEnds(l, p)])
        w5 == ExtendAlt(w3, [p \in Pos(l) |-> RatioSepAlts(l, p)])
        w6 == Extend(w5, [p \in Pos(l) |-> ClassEnds(l, p, { "\n" })])
        w7 == Extend(w6, [p \in Pos(l) |-> WsEnds(l, p)])
        w8 == Extend(w7, [p \in Pos(l) |-> NameEnds(l, p)])
        w9 == Extend(w8, [p \in Pos(l) |-> WsEnds(l, p)])
        w10 == Extend(w9, [p \in Pos(l) |-> ClassEnds(l, p, { ":", "-", " " })])
        w11 == Extend(w10, [p \in Pos(l) |-> WsEnds(l, p)])
        w12 == Extend(w11, [p \in Pos(l) |-> NumEnds(l, p)])
        w13 == Extend(w12, [p \in Pos(l) |-> WsEnds(l, p)])
        w14 == Extend(w13, [p \in Pos(l) |-> ClassEnds(l, p, { ":", "/" })])
        w15 == Extend(w14, [p \in Pos(l) |-> WsEnds(l, p)])
    IN  Extend(w15, [p \in Pos(l) |-> Longest(NumEnds(l, p))])

RatioOrder == << -1, 1, 1, -1, 1, 1, 1, 1, 1, 1, 1, 1, 1, 1, 1, 1 >>

RatioMatch(l, w) ==
    [ok |-> TRUE, s |-> Sub(l, w[1], w[2]), t |-> Sub(l, w[7], w[8]),
     a1 |-> Sub(l, w[11], w[12]), a2 |-> Sub(l, w[15], w[16]), lastgroup |-> "a2"]

\* p_ratio.search(line)
p_ratio_search(l) ==
    IF RatioWays(l) = {} THEN NoMatch
    ELSE CHOOSE m \in { RatioMatch(l, w) : w \in { FirstTried(RatioWays(l), RatioOrder) } } : TRUE

\* ------------------------------------------------------------------------
\* parse_rate_from_match
\* ------------------------------------------------------------------------

RECURSIVE Gcd(_, _)
Gcd(a, b) == IF b = 0 THEN a ELSE Gcd(b, a % b)

\* the rational n/d in lowest terms (d > 0)
Rat(n, d) == LET g == Gcd(n, d) IN << n \div g, d \div g >>

RECURSIVE Pow10(_)
Pow10(k) == IF k = 0 THEN 1 ELSE 10 * Pow10(k - 1)

\* the integer written by a sequence of digits
RECURSIVE DigitsVal(_)
DigitsVal(x) == IF x = << >> THEN 0
                ELSE 10 * DigitsVal(SubSeq(x, 1, Len(x) - 1)) + DigitVal(x[Len(x)])

\* num(x) = float(x.replace(",", ".")), for x matched by \d+(?:[.,]\d+)?
num(x) ==
    LET d == RunEnd(x, 1, Digit)
        ip == SubSeq(x, 1, d - 1)
        fp == SubSeq(x, d + 1, Len(x))
    IN  Rat(DigitsVal(ip) * Pow10(Len(fp)) + DigitsVal(fp), Pow10(Len(fp)))

\* a2 / a1 for a1 # 0
Div(a2, a1) == Rat(a2[1] * a1[2], a2[2] * a1[1])

Raised(e) == [raised |-> TRUE, exc |-> e]

Returned(s, t, rate) == [raised |-> FALSE, s |-> s, t |-> t, rate |-> rate]

\* parse_rate_from_match had it told the patterns apart by the group that
\* closes each of them ("t" closes p_eq, "a2" closes p_ratio)
parse_rate_by_closing_group(m) ==
    IF m.lastgroup \in { "t", "a2" } THEN
        IF num(m.a1)[1] = 0 THEN Raised("zero source amount")
        ELSE Returned(Strip(m.s), Strip(m.t), Div(num(m.a2), num(m.a1)))
    ELSE Raised("unknown pattern")

\* parse_rate_from_match(m): dispatches on m.lastgroup, the name of the last
\* capturing group that took part in the match
parse_rate_from_match(m) ==
    IF m.lastgroup = "eq" THEN
        IF num(m.a1)[1] = 0 THEN Raised("zero source amount")
        ELSE Returned(Strip(m.s), Strip(m.t), Div(num(m.a2), num(m.a1)))
    ELSE IF m.lastgroup = "one" THEN
        Returned(Strip(m.s), Strip(m.t), num(m.a2))
    ELSE IF m.lastgroup = "ratio" THEN
        IF num(m.a1)[1] = 0 THEN Raised("zero source amount")
        ELSE Returned(Strip(m.s), Strip(m.t), Div(num(m.a2), num(m.a1)))
    ELSE Raised("unknown pattern")

\* ------------------------------------------------------------------------
\* Normalisation of names
\* ------------------------------------------------------------------------

\* re.sub(r"\s+", " ", x)
RECURSIVE CollapseWs(_)
CollapseWs(x) ==
    IF x = << >> THEN << >>
    ELSE IF Head(x) \in WS THEN << " " >> \o CollapseWs(SubSeq(x, RunEnd(x, 1, WS), Len(x)))
    ELSE << Head(x) >> \o CollapseWs(Tail(x))

\* str.title(): a letter is upper-cased after a non-letter, lower-cased after a letter
RECURSIVE TitleFrom(_, _)
TitleFrom(x, prevCased) ==
    IF x = << >> THEN << >>
    ELSE << IF prevCased THEN ToLower(Head(x)) ELSE ToUpper(Head(x)) >>
         \o TitleFrom(Tail(x), Head(x) \in Letter)

Title(x) == TitleFrom(x, FALSE)

NormalizeName(x) == Title(Strip(CollapseWs(x)))

\* ------------------------------------------------------------------------
\* Parsed documents (the BeautifulSoup tree): the nodes in document order,
\* each with the index of its parent (0: the BeautifulSoup object itself).
\* A tag has no text of its own; a text node has tag "#text".  A missing
\* attribute and an empty one are both << >> (the code tests `if val`).
\* ------------------------------------------------------------------------

Elem(tag, parent) ==
    [tag |-> tag, parent |-> parent, text |-> << >>,
     alt |-> << >>, title |-> << >>, aria |-> << >>]

TextNode(parent, chars) ==
    [tag |-> "#text", parent |-> parent, text |-> chars,
     alt |-> << >>, title |-> << >>, aria |-> << >>]

Img(parent, alt, title, aria) ==
    [tag |-> "img", parent |-> parent, text |-> << >>,
     alt |-> alt, title |-> title, aria |-> aria]

\* the names collect_text_candidates passes to find_all
TextTags == { "h1", "h2", "h3", "h4", "h5", "h6", "p", "li", "span", "div" }

RECURSIVE IsAncestor(_, _, _)
IsAncestor(doc, a, j) ==
    doc[j].parent = a \/ (doc[j].parent # 0 /\ IsAncestor(doc, a, doc[j].parent))

\* tag.get_text(" ", strip=True): the stripped, non-empty strings below node k,
\* joined by one space
RECURSIVE JoinStrings(_, _, _, _)
JoinStrings(doc, k, j, acc) ==
    IF j > Len(doc) THEN acc
    ELSE LET piece == Strip(doc[j].text)
         IN  IF doc[j].tag = "#text" /\ IsAncestor(doc, k, j) /\ piece # << >>
             THEN JoinStrings(doc, k, j + 1,
                              IF acc = << >> THEN piece ELSE acc \o << " " >> \o piece)
             ELSE JoinStrings(doc, k, j + 1, acc)

get_text(doc, k) == JoinStrings(doc, k, k + 1, << >>)

\* lines 96-99: the text of every heading, paragraph, list item, span and div
RECURSIVE TagLines(_, _)
TagLines(doc, k) ==
    IF k > Len(doc) THEN << >>
    ELSE LET txt == get_text(doc, k)
         IN  (IF doc[k].tag \in TextTags /\ txt # << >> /\ Len(txt) >= 2
              THEN << txt >> ELSE << >>)
             \o TagLines(doc, k + 1)

\* lines 103-106: one attribute of an image
AttrLine(val) ==
    IF val # << >> /\ Len(Strip(val)) > 2 THEN << Strip(val) >> ELSE << >>

\* parent.find_next_siblings(): the tags after node k under the same parent
NextSiblings(doc, k) ==
    IF k = 0 THEN {}
    ELSE { j \in (k + 1) .. Len(doc) : doc[j].parent = doc[k].parent /\ doc[j].tag # "#text" }

\* lines 108-113: the text of the first sibling of the image's parent that has any
CaptionLine(doc, k) ==
    LET sibs == { j \in NextSiblings(doc, doc[k].parent) : get_text(doc, j) # << >> }
    IN  IF sibs = {} THEN << >> ELSE << get_text(doc, SetMin(sibs)) >>

\* lines 101-113
RECURSIVE ImgLines(_, _)
ImgLines(doc, k) ==
    IF k > Len(doc) THEN << >>
    ELSE (IF doc[k].tag = "img"
          THEN AttrLine(doc[k].alt) \o AttrLine(doc[k].title) \o AttrLine(doc[k].aria)
               \o CaptionLine(doc, k)
          ELSE << >>)
         \o ImgLines(doc, k + 1)

InSeq(x, sq) == \E i \in DOMAIN sq : sq[i] = x

\* lines 115-120: drop the repeats, keeping the first occurrence
RECURSIVE Uniq(_, _)
Uniq(lines, acc) ==
    IF lines = << >> THEN acc
    ELSE Uniq(Tail(lines), IF InSeq(Head(lines), acc) THEN acc ELSE Append(acc, Head(lines)))

collect_text_candidates(doc, ocr) ==
    Uniq(TagLines(doc, 1) \o (IF ocr THEN ImgLines(doc, 1) ELSE << >>), << >>)

\* ------------------------------------------------------------------------
\* The inputs of the model: lines of text and documents
\* ------------------------------------------------------------------------

\* 1 Gem = 5 Coin
LineGem5 == << "1", " ", "G", "e", "m", " ", "=", " ", "5", " ", "C", "o", "i", "n" >>

\* 1 gem = 5 coin
LineGem5Lower == << "1", " ", "g", "e", "m", " ", "=", " ", "5", " ", "c", "o", "i", "n" >>

\* 2 Gem = 5 Coin
LineGemHalf == << "2", " ", "G", "e", "m", " ", "=", " ", "5", " ", "C", "o", "i", "n" >>

\* 0 Gem = 5 Coin
LineZeroSource == << "0", " ", "G", "e", "m", " ", "=", " ", "5", " ", "C", "o", "i", "n" >>

\* 1 Gem = 0 Coin
LineZeroTarget == << "1", " ", "G", "e", "m", " ", "=", " ", "0", " ", "C", "o", "i", "n" >>

\* Hi!
LineNoMatch == << "H", "i", "!" >>

\* Gem to\nCoin 1:5
LineRatio == << "G", "e", "m", " ", "t", "o", "\n", "C", "o", "i", "n", " ", "1", ":", "5" >>

\* Gem to\nCoin 0:5
LineRatioZeroSource == << "G", "e", "m", " ", "t", "o", "\n", "C", "o", "i", "n", " ", "0", ":", "5" >>

\* 0 g = 2 c to\nc 1:2
LineEqThenRatio == << "0", " ", "g", " ", "=", " ", "2", " ", "c", " ", "t", "o", "\n", "c", " ", "1", ":", "2" >>

LinePool ==
    { LineGem5, LineGem5Lower, LineGemHalf, LineZeroSource, LineZeroTarget, LineNoMatch,
      LineRatio, LineRatioZeroSource, LineEqThenRatio }

\* the most <p> elements of a generated document
MaxParas == 2

\* <p>l1</p><p>l2</p>...
ParaDoc(ls) ==
    [k \in 1 .. 2 * Len(ls) |->
        IF k % 2 = 1 THEN Elem("p", 0) ELSE TextNode(k - 1, ls[k \div 2])]

ParaDocs == { ParaDoc(ls) : ls \in UNION { [1 .. n -> LinePool] : n \in 1 .. MaxParas } }

\* <div><p>ab</p></div><span>x</span><li> 1 Gem = 5 Coin\n</li>
DocNested == << Elem("div", 0), Elem("p", 1), TextNode(2, << "a", "b" >>), Elem("span", 0), TextNode(4, << "x" >>),
               Elem("li", 0), TextNode(6, << " ", "1", " ", "G", "e", "m", " ", "=", " ", "5", " ", "C", "o", "i", "n", "\n" >>) >>

\* <div><img alt="2 Gem = 5 Coin" title=" ab " aria-label="abc"></div><b>x</b><p>Hi!</p>
DocImgCaption == << Elem("div", 0), Img(1, << "2", " ", "G", "e", "m", " ", "=", " ", "5", " ", "C", "o", "i", "n" >>, << " ", "a", "b", " " >>, << "a", "b", "c" >>), Elem("b", 0), TextNode(3, << "x" >>),
                   Elem("p", 0), TextNode(5, << "H", "i", "!" >>) >>

\* <img alt="Hi!"><p>2 Gem <span>= 5 Coin</span></p><div><img title="1 Gem = 0 Coin"></div><p> </p><h1>1 gem = 5 coin</h1>
DocImgTop == << Img(0, << "H", "i", "!" >>, << >>, << >>), Elem("p", 0), TextNode(2, << "2", " ", "G", "e", "m", " " >>), Elem("span", 2), TextNode(4, << "=", " ", "5", " ", "C", "o", "i", "n" >>),
               Elem("div", 0), Img(6, << >>, << "1", " ", "G", "e", "m", " ", "=", " ", "0", " ", "C", "o", "i", "n" >>, << >>), Elem("p", 0), TextNode(8, << " " >>),
               Elem("h1", 0), TextNode(10, << "1", " ", "g", "e", "m", " ", "=", " ", "5", " ", "c", "o", "i", "n" >>) >>

StructDocs == { DocNested, DocImgCaption, DocImgTop }

Docs == ParaDocs \cup StructDocs

\* ------------------------------------------------------------------------
\* URLs: what urlparse makes of the string.  frag is "none" when the string
\* has no "#", "empty" when nothing follows its "#".
\* ------------------------------------------------------------------------

Url(scheme, netloc, path, frag) ==
    [scheme |-> scheme, netloc |-> netloc, path |-> path, frag |-> frag]

\* clean_url: urlparse(url)._replace(fragment="").geturl()
clean_url(u) == [u EXCEPT !.frag = "none"]

\* payload.get("url") is None
NoUrl == Url("", "", "", "none")

\* Optional[str] values that are not matched against patterns are TLA+ strings
NoneStr == "None"

Falsy(x) == x \in { NoneStr, "" }

\* urlunparse: the string put together again has no "#" when the fragment is empty
Unparsed(u) == IF u.frag = "empty" THEN [u EXCEPT !.frag = "none"] ELSE u

\* urljoin(base, href), href given as urlparse reads it: an href with another
\* scheme stands as it is, any other takes the scheme, then the host, then the
\* path of the base (the paths of the model are absolute) and is put together
\* by urlunparse; an empty href gives the base as it is
urljoin(base, h) ==
    IF h.scheme \notin { "", base.scheme } THEN h
    ELSE IF h.netloc # "" THEN Unparsed([h EXCEPT !.scheme = base.scheme])
    ELSE IF h.path # "" THEN Unparsed([base EXCEPT !.path = h.path, !.frag = h.frag])
    ELSE IF h.frag # "none" THEN Unparsed([base EXCEPT !.frag = h.frag])
    ELSE base

\* abs_url.startswith("http")
StartsWithHttp(u) == u.scheme \in { "http", "https" }

\* ------------------------------------------------------------------------
\* The web the service fetches from: per URL the status of the response, the
\* text of <title> (NoneStr: there is none), the parsed body and the hrefs of
\* its <a> elements in document order.  A URL outside it has no server.
\* ------------------------------------------------------------------------

WebPage(status, title, doc, hrefs) ==
    [status |-> status, title |-> title, doc |-> doc, hrefs |-> hrefs]

UrlHome == Url("http", "a", "/", "none")

PageA == Url("http", "a", "/p", "none")

UrlGone == Url("http", "b", "/q", "none")

UrlR == Url("http", "a", "/r", "none")

UrlOther == Url("http", "b", "/", "none")

UrlNoServer == Url("http", "c", "/", "none")

PageDocA == ParaDoc(<< LineGem5 >>)

Web ==
    (UrlHome :> WebPage(200, "Home", DocNested,
                        << Url("", "", "/p", "top"), UrlOther, Url("ftp", "a", "/f", "none"),
                           Url("", "", "", "top"), Url("mailto", "", "x", "none") >>))
    @@ (PageA :> WebPage(200, NoneStr, PageDocA,
                         << UrlHome, Url("", "", "/r", "none"), Url("", "b", "/", "none"),
                            Url("", "", "/p", "none") >>))
    @@ (UrlR :> WebPage(200, "R", DocImgCaption,
                        << Url("http", "a", "/p", "empty"), Url("", "", "/r", "top") >>))
    @@ (UrlOther :> WebPage(200, "Other", DocImgTop, << PageA, Url("", "", "/q", "none") >>))
    @@ (UrlGone :> WebPage(404, NoneStr, << >>, << >>))

\* fetch_page(url): the HTTP client sends the URL without its fragment
fetch_page(url) ==
    LET target == clean_url(url)
    IN  IF target \notin DOMAIN Web
        THEN [ok |-> FALSE, status |-> 500, detail |-> "Network error"]
        ELSE IF Web[target].status # 200
        THEN [ok |-> FALSE, status |-> Web[target].status, detail |-> "Failed to fetch"]
        ELSE [ok |-> TRUE, status |-> 200, url |-> url, title |-> Web[target].title,
              doc |-> Web[target].doc]

\* every line of text the documents of the model hold
KnownLines ==
    UNION { { collect_text_candidates(d, TRUE)[i] : i \in DOMAIN collect_text_candidates(d, TRUE) } :
            d \in Docs \cup { Web[u].doc : u \in DOMAIN Web } }

\* the compiled patterns of lines 162 and 165, as the function from a line to
\* the result of searching it
p_eq == [l \in KnownLines |-> p_eq_search(l)]

p_ratio == [l \in KnownLines |-> p_ratio_search(l)]

\* ------------------------------------------------------------------------
\* extract_conversions
\* ------------------------------------------------------------------------

\* the dict appended at lines 175 and 184
Rec(s, t, rate, line, url, title) ==
    [source |-> Strip(s), target |-> Strip(t), rate |-> rate,
     text |-> line, page_url |-> url, page_title |-> title]

NotAppended == [appended |-> FALSE, escaped |-> FALSE]

\* lines 175 and 184: the record appended once parse_rate_from_match has returned r
Appended(r, line, url, title) ==
    [appended |-> TRUE, escaped |-> FALSE, rec |-> Rec(r.s, r.t, r.rate, line, url, title)]

\* the rest of a try block, r being what parse_rate_from_match did (lines
\* 174-178, 183-187): `except Exception: pass` lets no exception leave it
AfterParse(r, line, url, title) ==
    IF r.raised THEN NotAppended ELSE Appended(r, line, url, title)

\* the same without the except clause
AfterParseNoExcept(r, line, url, title) ==
    IF r.raised THEN [appended |-> FALSE, escaped |-> TRUE]
    ELSE Appended(r, line, url, title)

\* the try block without its except clause
TryAppendNoExcept(m, line, url, title) ==
    AfterParseNoExcept(parse_rate_from_match(m), line, url, title)

\* one try block (lines 173-178, 182-187)
TryAppend(m, line, url, title) ==
    AfterParse(parse_rate_from_match(m), line, url, title)

\* `if m:` and its try block (lines 172-178, 181-187)
IfMatched(m, line, url, title) ==
    IF m.ok THEN TryAppend(m, line, url, title) ELSE NotAppended

\* the end of an iteration that reached the ratio pattern, b being what its
\* try block did
AfterRatio(b) ==
    [recs |-> IF b.appended THEN << b.rec >> ELSE << >>,
     tried |-> << "eq", "ratio" >>,
     escaped |-> b.escaped]

\* the iteration after the eq pattern, a being what its try block did: the
\* `continue` of line 176, or the ratio pattern (lines 179-187)
AfterEq(a, line, url, title) ==
    IF a.escaped THEN [recs |-> << >>, tried |-> << "eq" >>, escaped |-> TRUE]
    ELSE IF a.appended THEN [recs |-> << a.rec >>, tried |-> << "eq" >>, escaped |-> FALSE]
    ELSE AfterRatio(IfMatched(p_ratio[line], line, url, title))

\* one iteration of the loop over the lines (lines 169-187): the records it
\* appends, the patterns it searched in order, and whether an exception left it
LineStep(line, url, title) ==
    AfterEq(IfMatched(p_eq[line], line, url, title), line, url, title)

\* lines 190-192
NormalizeRec(r) ==
    [r EXCEPT !.source = NormalizeName(r.source), !.target = NormalizeName(r.target)]

NormalizeAll(results) == [i \in DOMAIN results |-> NormalizeRec(results[i])]

\* line 196
DedupKey(r) == << r.page_url, r.source, r.target, r.rate >>

\* lines 194-199: a dict keyed by DedupKey, in insertion order, first record kept
RECURSIVE DedupRecords(_, _)
DedupRecords(results, acc) ==
    IF results = << >> THEN acc
    ELSE DedupRecords(Tail(results),
                      IF \E i \in DOMAIN acc : DedupKey(acc[i]) = DedupKey(Head(results))
                      THEN acc
                      ELSE Append(acc, Head(results)))

\* lines 189-199
PostProcess(results) == DedupRecords(NormalizeAll(results), << >>)

\* results and the exception in flight after one more iteration
Iterated(acc, st) == [results |-> acc.results \o st.recs, escaped |-> st.escaped]

\* lines 168-187 over all the lines
RECURSIVE MatchLines(_, _, _, _)
MatchLines(lines, url, title, acc) ==
    IF lines = << >> \/ acc.escaped THEN acc
    ELSE MatchLines(Tail(lines), url, title,
                    Iterated(acc, LineStep(Head(lines), url, title)))

\* lines 189-199 after the loop r
Finished(r) ==
    [raised |-> r.escaped, items |-> IF r.escaped THEN << >> ELSE PostProcess(r.results)]

\* extract_conversions(url, title, html, ocr), html given as its parsed tree
extract_conversions(url, title, doc, ocr) ==
    Finished(MatchLines(collect_text_candidates(doc, ocr), url, title,
                        [results |-> << >>, escaped |-> FALSE]))

\* ------------------------------------------------------------------------
\* State
\* ------------------------------------------------------------------------

VARIABLES
    ex_phase,      \* where one call of extract_conversions stands
    ex_url,        \* its arguments
    ex_title,
    ex_doc,
    ex_ocr,
    ex_lines,      \* lines (line 158)
    ex_idx,        \* the number of lines the loop of line 169 has processed
    ex_results,    \* results (line 168)
    ex_tried,      \* per processed line, the patterns searched on it, in order
    ex_raised,     \* an exception left the call
    ex_out,        \* the list returned (line 199)
    db,            \* "none": db is None; "up": there is a store
    scrapepage,    \* the documents of db["scrapepage"]
    conversion,    \* the documents of db["conversion"]
    next_id,       \* the _id the next inserted document gets
    clock,         \* the last time read from the clock, the store's or the server's
    conv_writes,   \* the update_one calls made on db["conversion"], in order
    job,           \* per thread, the locals of its /api/extract or upsert handler
    sc_pc,         \* per thread, where its /api/scrape handler stands
    sc_req,        \* its body
    sc_to_visit,   \* to_visit
    sc_visited,    \* visited
    sc_pages_saved,\* pages_saved
    sc_saved,      \* the URLs it has written to db["scrapepage"], in order
    sc_current,    \* current
    resp,          \* the last response sent
    n_requests     \* the requests received so far

ex_vars == << ex_phase, ex_url, ex_title, ex_doc, ex_ocr, ex_lines, ex_idx,
              ex_results, ex_tried, ex_raised, ex_out >>

store_vars == << db, scrapepage, conversion, next_id, clock, conv_writes >>

sc_vars == << sc_pc, sc_req, sc_to_visit, sc_visited, sc_pages_saved, sc_saved, sc_current >>

api_vars == << store_vars, job, sc_vars, resp, n_requests >>

vars == << ex_vars, api_vars >>

\* The handlers are plain functions, which the server runs in the threads of
\* a pool, several requests at a time.  The model has two of the threads.
Workers == { 1, 2 }

\* no response yet
NoResp ==
    [op |-> "none", status |-> 0, detail |-> "", req |-> << >>, db |-> "",
     items |-> << >>, upserts |-> 0, pages_saved |-> 0]

NoScrapeRequest == [url |-> NoUrl, crawl |-> FALSE, max_pages |-> 0]

\* the locals of a thread that runs neither /api/extract nor the upsert:
\* page_url, page_title and in_store are what find_one gave, ws the update_one
\* calls still to make, now the time read for the next, items and upserts as
\* in the code
NoJob ==
    [op |-> "none", stage |-> "idle", payload |-> << >>, page_url |-> NoUrl,
     page_title |-> NoneStr, in_store |-> FALSE, ws |-> << >>, now |-> 0,
     items |-> << >>, upserts |-> 0]

\* the service at rest, before any request
ApiIdle ==
    /\ scrapepage = {}
    /\ conversion = {}
    /\ next_id = 1
    /\ clock = 0
    /\ conv_writes = << >>
    /\ job = [w \in Workers |-> NoJob]
    /\ sc_pc = [w \in Workers |-> "idle"]
    /\ sc_req = [w \in Workers |-> NoScrapeRequest]
    /\ sc_to_visit = [w \in Workers |-> << >>]
    /\ sc_visited = [w \in Workers |-> {}]
    /\ sc_pages_saved = [w \in Workers |-> 0]
    /\ sc_saved = [w \in Workers |-> << >>]
    /\ sc_current = [w \in Workers |-> NoUrl]
    /\ resp = NoResp
    /\ n_requests = 0

\* no call of extract_conversions in progress
ExIdle ==
    /\ ex_phase = "idle"
    /\ ex_url = NoUrl
    /\ ex_title = NoneStr
    /\ ex_doc = << >>
    /\ ex_ocr = FALSE
    /\ ex_lines = << >>
    /\ ex_idx = 0
    /\ ex_results = << >>
    /\ ex_tried = << >>
    /\ ex_raised = FALSE
    /\ ex_out = << >>

\* ------------------------------------------------------------------------
\* One call of extract_conversions, a step at a time
\* ------------------------------------------------------------------------

ExInit ==
    /\ ex_phase = "called"
    /\ ex_url = PageA
    /\ ex_title \in { NoneStr, "Shop" }
    /\ ex_doc \in Docs
    /\ ex_ocr \in BOOLEAN
    /\ ex_lines = << >>
    /\ ex_idx = 0
    /\ ex_results = << >>
    /\ ex_tried = << >>
    /\ ex_raised = FALSE
    /\ ex_out = << >>
    /\ db = "up"
    /\ ApiIdle

\* lines 157-158
ExCollect ==
    /\ ex_phase = "called"
    /\ ex_lines' = collect_text_candidates(ex_doc, ex_ocr)
    /\ ex_phase' = "matching"
    /\ UNCHANGED << ex_url, ex_title, ex_doc, ex_ocr, ex_idx, ex_results, ex_tried,
                    ex_raised, ex_out >>
    /\ UNCHANGED api_vars

\* one iteration of the loop of lines 169-187
ExMatchLine ==
    /\ ex_phase = "matching"
    /\ ex_idx < Len(ex_lines)
    /\ \E st \in { LineStep(ex_lines[ex_idx + 1], ex_url, ex_title) } :
           /\ ex_results' = ex_results \o st.recs
           /\ ex_tried' = Append(ex_tried, st.tried)
           /\ ex_raised' = st.escaped
           /\ ex_phase' = IF st.escaped THEN "returned" ELSE "matching"
    /\ ex_idx' = ex_idx + 1
    /\ UNCHANGED << ex_url, ex_title, ex_doc, ex_ocr, ex_lines, ex_out >>
    /\ UNCHANGED api_vars

\* lines 189-199
ExReturn ==
    /\ ex_phase = "matching"
    /\ ex_idx = Len(ex_lines)
    /\ ex_out' = PostProcess(ex_results)
    /\ ex_phase' = "returned"
    /\ UNCHANGED << ex_url, ex_title, ex_doc, ex_ocr, ex_lines, ex_idx, ex_results,
                    ex_tried, ex_raised >>
    /\ UNCHANGED api_vars

ExNext == ExCollect \/ ExMatchLine \/ ExReturn

SpecExtract == ExInit /\ [][ExNext]_vars

\* ------------------------------------------------------------------------
\* The store: a collection is the set of its documents, each with the _id it
\* got when inserted (1, 2, ... in insertion order)
\* ------------------------------------------------------------------------

\* find_one, and the document update_one changes: the first that matches
FirstOf(docs) == CHOOSE d \in docs : \A e \in docs : d.id <= e.id

ConvMatches(coll, q) ==
    { d \in coll : d.page_url = q.page_url /\ d.source = q.source /\ d.target = q.target }

\* update_one with created_at under "$set" instead of "$setOnInsert"
update_conversion_resetting_created(coll, q, set, now, id) ==
    LET hit == ConvMatches(coll, q)
    IN  IF hit # {}
        THEN (coll \ { FirstOf(hit) }) \cup
             { [FirstOf(hit) EXCEPT !.rate = set.rate, !.text = set.text,
                                    !.page_title = set.page_title,
                                    !.updated_at = now, !.created_at = now] }
        ELSE coll \cup
             { [id |-> id, page_url |-> q.page_url, source |-> q.source, target |-> q.target,
                rate |-> set.rate, text |-> set.text, page_title |-> set.page_title,
                updated_at |-> now, created_at |-> now] }

\* db["conversion"].update_one(q, {"$set": {rate, text, page_title, updated_at: now},
\*                                 "$setOnInsert": {created_at: now}}, upsert=True)
update_conversion(coll, q, set, now, id) ==
    LET hit == ConvMatches(coll, q)
    IN  IF hit # {}
        THEN (coll \ { FirstOf(hit) }) \cup
             { [FirstOf(hit) EXCEPT !.rate = set.rate, !.text = set.text,
                                    !.page_title = set.page_title, !.updated_at = now] }
        ELSE coll \cup
             { [id |-> id, page_url |-> q.page_url, source |-> q.source, target |-> q.target,
                rate |-> set.rate, text |-> set.text, page_title |-> set.page_title,
                updated_at |-> now, created_at |-> now] }

\* db["scrapepage"].update_one({"url": url}, {"$set": record,
\*                              "$currentDate": {"scraped_at": True}}, upsert=True);
\* the tables of the record are left out of the model
update_scrapepage(coll, record, now, id) ==
    LET hit == { d \in coll : d.url = record.url }
    IN  IF hit # {}
        THEN (coll \ { FirstOf(hit) }) \cup
             { [FirstOf(hit) EXCEPT !.path = record.path, !.title = record.title,
                                    !.scraped_at = now] }
        ELSE coll \cup
             { [id |-> id, url |-> record.url, path |-> record.path, title |-> record.title,
                scraped_at |-> now] }

\* the query of list_conversions (lines 431-434)
list_conversions(page_url) ==
    IF page_url = NoUrl THEN conversion
    ELSE { d \in conversion : d.page_url = clean_url(page_url) }

\* ------------------------------------------------------------------------
\* Requests
\* ------------------------------------------------------------------------

\* the most requests of a behaviour
MaxRequests == 2

\* the largest max_pages of a scrape request
MaxPages == 2

\* the most items of an upsert request
MaxItems == 1

\* ScrapeRequest.max_pages when the body does not give it
DefaultMaxPages == 10

\* payload.get("id") is None, is no ObjectId
NoId == 0

BadId == -1

Response(op, req, store, status, detail, items, upserts, pages_saved) ==
    [op |-> op, req |-> req, db |-> store, status |-> status, detail |-> detail,
     items |-> items, upserts |-> upserts, pages_saved |-> pages_saved]

Failure(status, detail) == [status |-> status, detail |-> detail, items |-> << >>]

Success(items) == [status |-> 200, detail |-> "ok", items |-> items]

\* a thread is serving a request
Busy(w) == job[w].op # "none" \/ sc_pc[w] # "idle"

\* a request is served by the first thread that is free
Free(w) == ~Busy(w) /\ \A v \in Workers : v < w => Busy(v)

\* the handler of thread w returns r or raises the HTTPException r
Answers(w, r) ==
    /\ resp' = r
    /\ job' = [job EXCEPT ![w] = NoJob]

\* --- POST /api/extract ---

\* lines 410-411 and what becomes of an exception of extract_conversions
Extracted(ex) ==
    IF ex.raised THEN Failure(500, "Internal Server Error") ELSE Success(ex.items)

\* lines 370-394 and 404-405: the HTTPException raised, or what find_one gave;
\* up: find_one returns.  The `except Exception` of line 386 turns a failure of
\* the store into "Invalid id".
ExtractLookup(payload, up) ==
    IF db = "none" THEN Failure(500, "Database not available")
    ELSE IF payload.url = NoUrl /\ payload.id = NoId THEN Failure(400, "Provide url or id")
    ELSE IF payload.url = NoUrl /\ payload.id = BadId THEN Failure(400, "Invalid id")
    ELSE IF ~up /\ payload.url = NoUrl THEN Failure(400, "Invalid id")
    ELSE IF ~up THEN Failure(500, "Internal Server Error")
    ELSE
        LET found == IF payload.url # NoUrl
                     THEN { d \in scrapepage : d.url = clean_url(payload.url) }
                     ELSE { d \in scrapepage : d.id = payload.id }
        IN  IF found = {} /\ payload.url = NoUrl THEN Failure(404, "Page not found")
            ELSE [status |-> 200, detail |-> "ok", items |-> << >>,
                  in_store |-> found # {},
                  page_url |-> IF found # {} THEN FirstOf(found).url ELSE payload.url,
                  page_title |-> IF found # {} THEN FirstOf(found).title ELSE NoneStr]

\* lines 396-411 for the locals j: the HTTPException raised, or the items extracted
ExtractFetched(j) ==
    LET fetched == fetch_page(j.page_url)
    IN  IF ~fetched.ok THEN Failure(fetched.status, fetched.detail)
        ELSE Extracted(extract_conversions(
                 IF j.in_store THEN j.page_url ELSE fetched.url,
                 IF j.in_store /\ ~Falsy(j.page_title) THEN j.page_title ELSE fetched.title,
                 fetched.doc, j.payload.ocr))

\* lines 417-419: the update_one call made for an item
ExtractWrite(it) ==
    [q |-> [page_url |-> it.page_url, source |-> it.source, target |-> it.target],
     set |-> [rate |-> it.rate, text |-> it.text, page_title |-> it.page_title]]

ExtractPayloads ==
    { [url |-> [PageA EXCEPT !.frag = "top"], id |-> NoId, ocr |-> o] : o \in BOOLEAN }
    \cup { [url |-> UrlGone, id |-> NoId, ocr |-> TRUE] }
    \cup { [url |-> NoUrl, id |-> i, ocr |-> TRUE] : i \in { NoId, BadId, 1 } }

\* the store as a request met it: None, failing, or answering
Store(up) == IF db = "none" THEN "none" ELSE IF up THEN "up" ELSE "down"

\* lines 370-394, 404-405: the request is taken up to its find_one
ExtractBegin(w, payload, up) ==
    /\ Free(w)
    /\ n_requests < MaxRequests
    /\ n_requests' = n_requests + 1
    /\ \E look \in { ExtractLookup(payload, up) } :
          IF look.status # 200
          THEN Answers(w, Response("extract", payload, Store(up), look.status, look.detail,
                                   << >>, 0, 0))
          ELSE /\ job' = [job EXCEPT ![w] =
                            [NoJob EXCEPT !.op = "extract", !.stage = "fetch",
                                          !.payload = payload,
                                          !.in_store = look.in_store,
                                          !.page_url = look.page_url,
                                          !.page_title = look.page_title]]
               /\ UNCHANGED resp
    /\ UNCHANGED << store_vars, sc_vars, ex_vars >>

\* lines 396-411, and 413-423 when nothing was extracted: the page is fetched
\* and the records extracted
ExtractFetch(w) ==
    /\ job[w].op = "extract"
    /\ job[w].stage = "fetch"
    /\ \E out \in { ExtractFetched(job[w]) } :
       \E ws \in { [i \in DOMAIN out.items |-> ExtractWrite(out.items[i])] } :
          IF ws = << >>
          THEN Answers(w, Response("extract", job[w].payload, "up", out.status, out.detail,
                                   out.items, 0, 0))
          ELSE /\ job' = [job EXCEPT ![w].stage = "read", ![w].ws = ws,
                                     ![w].items = out.items]
               /\ UNCHANGED resp
    /\ UNCHANGED << store_vars, sc_vars, n_requests, ex_vars >>

\* lines 416 and 463: now = datetime.utcnow()
WriteRead(w) ==
    /\ job[w].stage = "read"
    /\ clock' = clock + 1
    /\ job' = [job EXCEPT ![w].stage = "apply", ![w].now = clock + 1]
    /\ UNCHANGED << db, scrapepage, conversion, next_id, conv_writes, sc_vars, resp,
                    n_requests, ex_vars >>

\* lines 420-423 and 467-470: the update_one call, upserts += 1, and the
\* return after the last item; up: update_one returns
WriteApply(w, up) ==
    /\ job[w].stage = "apply"
    /\ IF ~up
       THEN /\ Answers(w, Response(job[w].op, job[w].payload, "down", 500,
                                   "Internal Server Error", << >>, 0, 0))
            /\ UNCHANGED << conversion, next_id, conv_writes >>
       ELSE /\ conversion' = update_conversion(conversion, Head(job[w].ws).q,
                                               Head(job[w].ws).set, job[w].now, next_id)
            /\ next_id' = IF ConvMatches(conversion, Head(job[w].ws).q) = {}
                          THEN next_id + 1 ELSE next_id
            /\ conv_writes' = Append(conv_writes,
                                     [q |-> Head(job[w].ws).q, set |-> Head(job[w].ws).set,
                                      now |-> job[w].now])
            /\ IF Len(job[w].ws) = 1
               THEN Answers(w, Response(job[w].op, job[w].payload, "up", 200, "ok",
                                        job[w].items, job[w].upserts + 1, 0))
               ELSE /\ job' = [job EXCEPT ![w].stage = "read", ![w].ws = Tail(@),
                                          ![w].upserts = @ + 1]
                    /\ UNCHANGED resp
    /\ UNCHANGED << db, scrapepage, clock, sc_vars, n_requests, ex_vars >>

\* --- POST /api/conversions/upsert ---

\* it["source"], it["target"], it["rate"] raise KeyError when the key is missing
ItemOk(it) == { "source", "target", "rate" } \subseteq it.keys

\* the update_one call of line 466 with page_url as the request gave it
UpsertWriteRawUrl(payload, it) ==
    [q |-> [page_url |-> payload.page_url,
            source |-> Strip(it.source), target |-> Strip(it.target)],
     set |-> [rate |-> it.rate,
              text |-> IF "text" \in it.keys THEN it.text ELSE << >>,
              page_title |-> IF ~Falsy(payload.page_title) THEN payload.page_title
                             ELSE IF "page_title" \in it.keys THEN it.page_title
                             ELSE NoneStr]]

\* lines 464-466: the update_one call made for an item that passed lines 457-462
UpsertWrite(payload, it) ==
    [q |-> [page_url |-> clean_url(payload.page_url),
            source |-> Strip(it.source), target |-> Strip(it.target)],
     set |-> [rate |-> it.rate,
              text |-> IF "text" \in it.keys THEN it.text ELSE << >>,
              page_title |-> IF ~Falsy(payload.page_title) THEN payload.page_title
                             ELSE IF "page_title" \in it.keys THEN it.page_title
                             ELSE NoneStr]]

RECURSIVE UpsertWrites(_, _)
UpsertWrites(payload, items) ==
    IF items = << >> THEN << >>
    ELSE (IF ItemOk(Head(items)) THEN << UpsertWrite(payload, Head(items)) >> ELSE << >>)
         \o UpsertWrites(payload, Tail(items))

\* lines 445-453
UpsertOutcome(payload) ==
    IF db = "none" THEN Failure(500, "Database not available")
    ELSE IF payload.page_url = NoUrl THEN Failure(400, "page_url is required")
    ELSE IF payload.items = << >> THEN Failure(400, "items must be a non-empty list")
    ELSE Success(<< >>)

Item(keys, source, target, rate, text, page_title) ==
    [keys |-> keys, source |-> source, target |-> target, rate |-> rate, text |-> text,
     page_title |-> page_title]

AllKeys == { "source", "target", "rate", "text", "page_title" }

ItemGem5 == Item(AllKeys, << " ", "G", "e", "m" >>, << "C", "o", "i", "n" >>, << 5, 1 >>, << "f", "i", "v", "e" >>, "Item")

ItemGem7 == Item({ "source", "target", "rate" }, << "G", "e", "m" >>, << "C", "o", "i", "n", "\n" >>, << 7, 1 >>, << >>, NoneStr)

ItemNoRate == Item({ "source", "target", "text" }, << "G", "e", "m" >>, << "C", "o", "i", "n" >>, << 0, 1 >>, << "b", "a", "d" >>, NoneStr)

ItemPool == { ItemGem5, ItemGem7, ItemNoRate }

UpsertPayloads ==
    { [page_url |-> NoUrl, page_title |-> NoneStr, items |-> << ItemGem5 >>],
      [page_url |-> [PageA EXCEPT !.frag = "top"], page_title |-> "Shop",
       items |-> << ItemGem7 >>] }
    \cup { [page_url |-> [PageA EXCEPT !.frag = "top"], page_title |-> NoneStr, items |-> its] :
             its \in UNION { [1 .. n -> { ItemGem5, ItemNoRate }] : n \in 0 .. MaxItems } }

\* lines 445-462, and 470 when no item passes: the request is taken up to its
\* first update_one
UpsertBegin(w, payload) ==
    /\ Free(w)
    /\ n_requests < MaxRequests
    /\ n_requests' = n_requests + 1
    /\ \E out \in { UpsertOutcome(payload) } :
       \E ws \in { IF out.status = 200 THEN UpsertWrites(payload, payload.items) ELSE << >> } :
          IF ws = << >>
          THEN Answers(w, Response("upsert", payload, db, out.status, out.detail, << >>, 0, 0))
          ELSE /\ job' = [job EXCEPT ![w] =
                            [NoJob EXCEPT !.op = "upsert", !.stage = "read",
                                          !.payload = payload, !.ws = ws]]
               /\ UNCHANGED resp
    /\ UNCHANGED << store_vars, sc_vars, ex_vars >>

\* --- POST /api/scrape ---

Max(a, b) == IF a >= b THEN a ELSE b

\* the loop condition with <= for <
LoopCondOffByOne(req, to_visit, pages_saved) ==
    to_visit # << >> /\ (~req.crawl \/ pages_saved <= Max(1, req.max_pages))

\* line 277
LoopCond(req, to_visit, pages_saved) ==
    to_visit # << >> /\ (~req.crawl \/ pages_saved < Max(1, req.max_pages))

\* lines 300-306: the frontier after the links of the page are seen
RECURSIVE CollectLinks(_, _, _, _, _)
CollectLinks(hrefs, current, base_origin, visited, to_visit) ==
    IF hrefs = << >> THEN to_visit
    ELSE LET abs_url == clean_url(urljoin(current, Head(hrefs)))
             keep == /\ abs_url.netloc = base_origin
                     /\ abs_url \notin visited
                     /\ ~InSeq(abs_url, to_visit)
                     /\ StartsWithHttp(abs_url)
         IN  CollectLinks(Tail(hrefs), current, base_origin, visited,
                          IF keep THEN Append(to_visit, abs_url) ELSE to_visit)

ScrapeRequests ==
    { [url |-> u, crawl |-> FALSE, max_pages |-> DefaultMaxPages] :
        u \in { [PageA EXCEPT !.frag = "top"], UrlNoServer } }
    \cup { [url |-> UrlHome, crawl |-> TRUE, max_pages |-> n] :
             n \in { -1, 0, MaxPages, DefaultMaxPages } }
    \cup { [url |-> UrlOther, crawl |-> TRUE, max_pages |-> DefaultMaxPages] }

\* the scrape requests made next to /api/extract and /api/conversions/upsert
MixedScrapeRequests ==
    { req \in ScrapeRequests :
        ~req.crawl \/ req.url = UrlOther \/ req.max_pages \in { 0, MaxPages } }

\* lines 267-275
ScrapeBegin(w, req) ==
    /\ Free(w)
    /\ n_requests < MaxRequests
    /\ n_requests' = n_requests + 1
    /\ sc_req' = [sc_req EXCEPT ![w] = req]
    /\ IF db = "none"
       THEN /\ resp' = Response("scrape", req, "none", 500, "Database not available",
                                << >>, 0, 0)
            /\ UNCHANGED << sc_pc, sc_to_visit, sc_visited, sc_pages_saved, sc_saved >>
       ELSE /\ sc_pc' = [sc_pc EXCEPT ![w] = "loop"]
            /\ sc_to_visit' = [sc_to_visit EXCEPT ![w] = << clean_url(req.url) >>]
            /\ sc_visited' = [sc_visited EXCEPT ![w] = {}]
            /\ sc_pages_saved' = [sc_pages_saved EXCEPT ![w] = 0]
            /\ sc_saved' = [sc_saved EXCEPT ![w] = << >>]
            /\ UNCHANGED resp
    /\ UNCHANGED << store_vars, job, sc_current, ex_vars >>

\* to_visit when it stays as it is
NotPopped(to_visit) == to_visit

\* to_visit after to_visit.pop(0) (line 278)
Popped(to_visit) == Tail(to_visit)

\* the request ends with an exception
ScrapeFails(w, store, status, detail) ==
    /\ sc_pc' = [sc_pc EXCEPT ![w] = "idle"]
    /\ resp' = Response("scrape", sc_req[w], store, status, detail, << >>, 0, 0)

\* visited when nothing is added to it
NotVisited(visited, current) == visited

\* visited after visited.add(current) (line 281)
Visited(visited, current) == visited \cup { current }

\* lines 277-283: the loop condition holds, a URL is popped and, unless it was
\* visited, fetched
ScrapeFetch(w) ==
    /\ sc_pc[w] = "loop"
    /\ LoopCond(sc_req[w], sc_to_visit[w], sc_pages_saved[w])
    /\ sc_to_visit' = [sc_to_visit EXCEPT ![w] = Popped(sc_to_visit[w])]
    /\ \E current \in { clean_url(Head(sc_to_visit[w])) } :
          IF current \in sc_visited[w]
          THEN UNCHANGED << sc_pc, sc_visited, sc_current, resp >>
          ELSE /\ sc_visited' = [sc_visited EXCEPT ![w] = Visited(@, current)]
               /\ \E data \in { fetch_page(current) } :
                     IF ~data.ok
                     THEN /\ ScrapeFails(w, "up", data.status, data.detail)
                          /\ UNCHANGED sc_current
                     ELSE /\ sc_pc' = [sc_pc EXCEPT ![w] = "save"]
                          /\ sc_current' = [sc_current EXCEPT ![w] = data.url]
                          /\ UNCHANGED resp
    /\ UNCHANGED << sc_req, sc_pages_saved, sc_saved, store_vars, job, n_requests, ex_vars >>

\* lines 286-293: the page fetched is written to the store; up: update_one
\* returns.  "$currentDate" is the time of the store.
ScrapeSave(w, up) ==
    /\ sc_pc[w] = "save"
    /\ IF ~up
       THEN /\ ScrapeFails(w, "down", 500, "Internal Server Error")
            /\ UNCHANGED << sc_pages_saved, sc_saved, store_vars >>
       ELSE /\ scrapepage' =
                  update_scrapepage(scrapepage,
                                    [url |-> sc_current[w], path |-> sc_current[w].path,
                                     title |-> fetch_page(sc_current[w]).title],
                                    clock + 1, next_id)
            /\ next_id' = IF \E d \in scrapepage : d.url = sc_current[w]
                          THEN next_id ELSE next_id + 1
            /\ clock' = clock + 1
            /\ sc_pages_saved' = [sc_pages_saved EXCEPT ![w] = @ + 1]
            /\ sc_saved' = [sc_saved EXCEPT ![w] = Append(@, sc_current[w])]
            /\ sc_pc' = [sc_pc EXCEPT ![w] = IF sc_req[w].crawl THEN "links" ELSE "loop"]
            /\ UNCHANGED << resp, db, conversion, conv_writes >>
    /\ UNCHANGED << sc_req, sc_to_visit, sc_visited, sc_current, job, n_requests, ex_vars >>

\* lines 295-308: in a crawl the page is fetched again and its links are
\* queued; linksOk: nothing was raised on the way
ScrapeLinks(w, linksOk) ==
    /\ sc_pc[w] = "links"
    /\ sc_pc' = [sc_pc EXCEPT ![w] = "loop"]
    /\ sc_to_visit' =
          IF linksOk
          THEN [sc_to_visit EXCEPT ![w] =
                   CollectLinks(Web[sc_current[w]].hrefs, sc_current[w],
                                clean_url(sc_req[w].url).netloc,
                                sc_visited[w], sc_to_visit[w])]
          ELSE sc_to_visit
    /\ UNCHANGED << sc_req, sc_visited, sc_pages_saved, sc_saved, sc_current, store_vars,
                    job, resp, n_requests, ex_vars >>

\* line 310
ScrapeReturn(w) ==
    /\ sc_pc[w] = "loop"
    /\ ~LoopCond(sc_req[w], sc_to_visit[w], sc_pages_saved[w])
    /\ sc_pc' = [sc_pc EXCEPT ![w] = "idle"]
    /\ resp' = Response("scrape", sc_req[w], "up", 200, "ok", << >>, 0, sc_pages_saved[w])
    /\ UNCHANGED << sc_req, sc_to_visit, sc_visited, sc_pages_saved, sc_saved, sc_current,
                    store_vars, job, n_requests, ex_vars >>

Init ==
    /\ db \in { "none", "up" }
    /\ ApiIdle
    /\ ExIdle

\* The steps of the handlers interleave.  A step has one access to what the
\* threads share (the store, the clock) and the local work next to it; an
\* access to the store returns or raises.
Next ==
    \/ \E w \in Workers, payload \in ExtractPayloads, up \in BOOLEAN :
          ExtractBegin(w, payload, up)
    \/ \E w \in Workers : ExtractFetch(w)
    \/ \E w \in Workers, payload \in UpsertPayloads : UpsertBegin(w, payload)
    \/ \E w \in Workers : WriteRead(w)
    \/ \E w \in Workers, up \in BOOLEAN : WriteApply(w, up)
    \/ \E w \in Workers, req \in MixedScrapeRequests : ScrapeBegin(w, req)
    \/ \E w \in Workers : ScrapeFetch(w)
    \/ \E w \in Workers, up \in BOOLEAN : ScrapeSave(w, up)
    \/ \E w \in Workers, linksOk \in BOOLEAN : ScrapeLinks(w, linksOk)
    \/ \E w \in Workers : ScrapeReturn(w)

Spec == Init /\ [][Next]_vars

\* /api/scrape alone.  A handler runs to its end once started: every fetch and
\* every call to the store returns or raises, so a thread that has a step to
\* make makes it.
ScrapeNext ==
    \/ \E w \in Workers, req \in ScrapeRequests : ScrapeBegin(w, req)
    \/ \E w \in Workers : ScrapeFetch(w)
    \/ \E w \in Workers, up \in BOOLEAN : ScrapeSave(w, up)
    \/ \E w \in Workers, linksOk \in BOOLEAN : ScrapeLinks(w, linksOk)
    \/ \E w \in Workers : ScrapeReturn(w)

SpecScrape ==
    /\ Init
    /\ [][ScrapeNext]_vars
    /\ \A w \in Workers :
          WF_vars(\/ ScrapeFetch(w)
                  \/ \E up \in BOOLEAN : ScrapeSave(w, up)
                  \/ \E linksOk \in BOOLEAN : ScrapeLinks(w, linksOk)
                  \/ ScrapeReturn(w))

\* ------------------------------------------------------------------------
\* Properties of extract_conversions
\* ------------------------------------------------------------------------

\* the lines the loop has processed so far
Processed == 1 .. ex_idx

\* the records the loop appended for a line (the lines of a call are distinct)
RecsOf(results, line) == { i \in DOMAIN results : results[i].text = line }

\* a match whose source or target amount is zero
ZeroAmount(m) == m.ok /\ (num(m.a1)[1] = 0 \/ num(m.a2)[1] = 0)

\* a match whose source amount is zero
ZeroSource(m) == m.ok /\ num(m.a1)[1] = 0

\* a match with a non-zero divisor: its numbers always parse
Validates(m) == m.ok /\ num(m.a1)[1] # 0

\* the line matches a pattern, and every match it has implies a rate <= 0
ImpliesNoRate(line) ==
    /\ p_eq[line].ok \/ p_ratio[line].ok
    /\ p_eq[line].ok => ZeroAmount(p_eq[line])
    /\ p_ratio[line].ok => ZeroAmount(p_ratio[line])

\* what a line states under the grammar of section 4.2: the normalized names
\* and the rate of the first pattern, equality then ratio, that matches it
\* with a non-zero source amount
Stated(line) ==
    LET say(m) == [ok |-> TRUE, source |-> NormalizeName(Strip(m.s)),
                   target |-> NormalizeName(Strip(m.t)),
                   rate |-> Div(num(m.a2), num(m.a1))]
    IN  IF Validates(p_eq[line]) THEN say(p_eq[line])
        ELSE IF Validates(p_ratio[line]) THEN say(p_ratio[line])
        ELSE [ok |-> FALSE]

SameTriple(a, b) == a.source = b.source /\ a.target = b.target /\ a.rate = b.rate

SamePair(a, b) == a.source = b.source /\ a.target = b.target

\* C1: every record accumulated or returned by extract_conversions has
\* rate > 0, and a processed line whose matches all imply a rate <= 0 (a zero
\* source or target amount) has no record among them.
C1_RatePositive ==
    /\ \A i \in DOMAIN ex_results : ex_results[i].rate[1] > 0
    /\ \A i \in DOMAIN ex_out : ex_out[i].rate[1] > 0
    /\ \A k \in Processed :
          ImpliesNoRate(ex_lines[k]) =>
              /\ RecsOf(ex_results, ex_lines[k]) = {}
              /\ RecsOf(ex_out, ex_lines[k]) = {}

\* the call returned normally after processing a matched line whose target
\* amount is zero and one whose source amount is zero
C1_Witness ==
    /\ ex_phase = "returned"
    /\ ~ex_raised
    /\ \E k \in Processed :
          /\ p_eq[ex_lines[k]].ok
          /\ num(p_eq[ex_lines[k]].a2)[1] = 0
          /\ num(p_eq[ex_lines[k]].a1)[1] # 0
    /\ \E k \in Processed : ZeroSource(p_eq[ex_lines[k]])

\* C2: the returned list holds at most one record per (page_url, source,
\* target), and when two lines state the same source and target with different
\* rates the one record of that pair carries the rate and text of the later
\* line.
C2_OnePerPairLastWins ==
    ex_phase = "returned" =>
        /\ \A i, j \in DOMAIN ex_out :
              (ex_out[i].page_url = ex_out[j].page_url /\ SamePair(ex_out[i], ex_out[j]))
                  => i = j
        /\ \A a, b \in DOMAIN ex_lines :
              ( /\ a < b
                /\ Stated(ex_lines[a]).ok /\ Stated(ex_lines[b]).ok
                /\ SamePair(Stated(ex_lines[a]), Stated(ex_lines[b]))
                /\ Stated(ex_lines[a]).rate # Stated(ex_lines[b]).rate
                /\ \A c \in DOMAIN ex_lines :
                      (c > b /\ Stated(ex_lines[c]).ok)
                          => ~SamePair(Stated(ex_lines[b]), Stated(ex_lines[c])) )
              => \E i \in DOMAIN ex_out :
                    /\ SamePair(ex_out[i], Stated(ex_lines[b]))
                    /\ ex_out[i].rate = Stated(ex_lines[b]).rate
                    /\ ex_out[i].text = ex_lines[b]

\* the first line of the call that states the same triple as line k
FirstStating(k) ==
    SetMin({ a \in DOMAIN ex_lines :
                Stated(ex_lines[a]).ok /\ SameTriple(Stated(ex_lines[a]), Stated(ex_lines[k])) })

\* C6: no two returned records share (source, target, rate); of the lines that
\* state the same triple the record of the first one is the one kept, with its
\* text; and the records come in the order of the first occurrences.
C6_FirstKeptInOrder ==
    ex_phase = "returned" =>
        /\ \A i, j \in DOMAIN ex_out : SameTriple(ex_out[i], ex_out[j]) => i = j
        /\ \A k \in DOMAIN ex_lines :
              Stated(ex_lines[k]).ok =>
                  \E i \in DOMAIN ex_out :
                      /\ SameTriple(ex_out[i], Stated(ex_lines[k]))
                      /\ ex_out[i].text = ex_lines[FirstStating(k)]
        /\ \A i, j \in DOMAIN ex_out :
              i < j =>
                  \E a, b \in DOMAIN ex_lines :
                      a < b /\ ex_out[i].text = ex_lines[a] /\ ex_out[j].text = ex_lines[b]

\* C7: a line yields zero or one record; the equality pattern is searched
\* first; when its match validates (non-zero divisor) the line yields that one
\* record and the ratio pattern is not searched; the ratio pattern is searched
\* only when the equality pattern does not match or its match is rejected for
\* a zero divisor; a line matching neither yields no record and no error.
C7_FirstValidPatternWins ==
    \A k \in Processed :
        LET line == ex_lines[k]
        IN  /\ Cardinality(RecsOf(ex_results, line)) <= 1
            /\ ex_tried[k][1] = "eq"
            /\ Validates(p_eq[line]) =>
                  /\ ex_tried[k] = << "eq" >>
                  /\ Cardinality(RecsOf(ex_results, line)) = 1
            /\ InSeq("ratio", ex_tried[k]) =>
                  (~p_eq[line].ok \/ ZeroSource(p_eq[line]))
            /\ (~p_eq[line].ok /\ ~p_ratio[line].ok) =>
                  (RecsOf(ex_results, line) = {} /\ ~ex_raised)

\* the line has a match, by the equality or by the ratio pattern, whose source
\* amount is zero
HasZeroSource(line) == ZeroSource(p_eq[line]) \/ ZeroSource(p_ratio[line])

\* C8: the iteration of the loop over a line that a pattern, equality or
\* ratio, matches with a zero source amount raises nothing, the loop goes on
\* and the records accumulated before it stay as they were; and when no
\* pattern matches the line with a non-zero source amount, no record is added.
C8_ZeroSourceDiscarded ==
    [][ ( /\ ex_phase = "matching"
          /\ ex_idx' = ex_idx + 1
          /\ HasZeroSource(ex_lines[ex_idx + 1]) )
        => ( /\ ex_raised' = FALSE
             /\ ex_phase' = "matching"
             /\ Len(ex_results') >= Len(ex_results)
             /\ SubSeq(ex_results', 1, Len(ex_results)) = ex_results
             /\ ( ~Validates(p_eq[ex_lines[ex_idx + 1]])
                    /\ ~Validates(p_ratio[ex_lines[ex_idx + 1]])
                  => ex_results' = ex_results ) ) ]_vars

\* the loop has processed "0 Gem = 5 Coin", which the equality pattern matches
\* with a zero source amount, and a line that only the ratio pattern matches,
\* with a zero source amount as well
C8_Witness ==
    /\ ex_phase = "matching"
    /\ ~ex_raised
    /\ \E j, k \in Processed :
          /\ ex_lines[j] = LineZeroSource
          /\ ZeroSource(p_eq[ex_lines[j]])
          /\ ex_tried[j] = << "eq", "ratio" >>
          /\ ~p_eq[ex_lines[k]].ok
          /\ ZeroSource(p_ratio[ex_lines[k]])
          /\ ex_tried[k] = << "eq", "ratio" >>

\* C9: the sequence collect_text_candidates returns has no two equal strings,
\* and every string of it is non-empty and at least 2 characters long after
\* trimming, with the image flag on or off.
C9_CandidatesDistinctAndLong ==
    ex_phase # "called" =>
        /\ \A i, j \in DOMAIN ex_lines : ex_lines[i] = ex_lines[j] => i = j
        /\ \A i \in DOMAIN ex_lines : Len(Strip(ex_lines[i])) >= 2

\* ------------------------------------------------------------------------
\* Properties of the store and of the requests
\* ------------------------------------------------------------------------

KeyOf(d) == [page_url |-> d.page_url, source |-> d.source, target |-> d.target]

\* the writes made so far for a key, as indices of conv_writes
WritesFor(q) == { k \in DOMAIN conv_writes : conv_writes[k].q = q }

\* C3: the conversion store holds at most one document per (page_url, source,
\* target), one for every key written; its rate, text and page_title are those
\* of the latest write for its key, its created_at is the time of the first
\* write for the key (so it never changes) and its updated_at the time of the
\* latest.
C3_UpsertLastWriteWins ==
    /\ \A d, e \in conversion : KeyOf(d) = KeyOf(e) => d = e
    /\ \A k \in DOMAIN conv_writes : \E d \in conversion : KeyOf(d) = conv_writes[k].q
    /\ \A d \in conversion :
          /\ WritesFor(KeyOf(d)) # {}
          /\ \E first, last \in WritesFor(KeyOf(d)) :
                /\ first = SetMin(WritesFor(KeyOf(d)))
                /\ last = SetMax(WritesFor(KeyOf(d)))
                /\ d.rate = conv_writes[last].set.rate
                /\ d.text = conv_writes[last].set.text
                /\ d.page_title = conv_writes[last].set.page_title
                /\ d.updated_at = conv_writes[last].now
                /\ d.created_at = conv_writes[first].now

\* a key written twice, at different times and with different rates
C3_Witness ==
    \E d \in conversion :
        \E a, b \in WritesFor(KeyOf(d)) :
            /\ a < b
            /\ conv_writes[a].set.rate # conv_writes[b].set.rate
            /\ d.created_at < d.updated_at

Fragments == { "none", "empty", "top" }

\* C4: every url of scrapepage and every page_url of conversion is its own
\* clean_url, so list_conversions, asked for a page by any URL that differs
\* from it in the fragment only, returns every record written for the page.
C4_StoredUrlsFragmentFree ==
    /\ \A d \in scrapepage : d.url = clean_url(d.url)
    /\ \A d \in conversion :
          /\ d.page_url = clean_url(d.page_url)
          /\ \A f \in Fragments : d \in list_conversions([d.page_url EXCEPT !.frag = f])
    /\ \A k \in DOMAIN conv_writes : \A f \in Fragments :
          \E d \in list_conversions([conv_writes[k].q.page_url EXCEPT !.frag = f]) :
              KeyOf(d) = [conv_writes[k].q EXCEPT !.page_url = clean_url(@)]

\* /api/extract has answered 200 for a URL with a fragment that scrapepage does
\* not hold, the store holding a record written for a URL with a fragment
C4_Witness ==
    /\ resp.op = "extract"
    /\ resp.status = 200
    /\ resp.req.url # NoUrl
    /\ resp.req.url.frag # "none"
    /\ \A d \in scrapepage : d.url # clean_url(resp.req.url)
    /\ conversion # {}

\* the request names a page by a URL that can be fetched
Fetchable(payload) == payload.url # NoUrl /\ fetch_page(payload.url).ok

\* C5: an extract request for a fetchable page made while the store is
\* unavailable or failing is answered with the records extracted from the page.
C5_ExtractionSurvivesStoreFailure ==
    (resp.op = "extract" /\ Fetchable(resp.req) /\ resp.db \in { "none", "down" })
        => /\ resp.status = 200
           /\ resp.items =
                 extract_conversions(resp.req.url, fetch_page(resp.req.url).title,
                                     fetch_page(resp.req.url).doc, resp.req.ocr).items

\* C10: in a scrape request pages_saved is the number of URLs saved, which are
\* distinct, fragment-free and in scrapepage; every one of them but the start
\* URL has the network location of the start URL; and pages_saved is at most
\* max(1, max_pages) when crawl is true, at most 1 when it is false.
C10_CrawlLoopCounts ==
    \A w \in Workers :
        /\ sc_pages_saved[w] = Len(sc_saved[w])
        /\ \A i, j \in DOMAIN sc_saved[w] :
              clean_url(sc_saved[w][i]) = clean_url(sc_saved[w][j]) => i = j
        /\ \A i \in DOMAIN sc_saved[w] :
              /\ sc_saved[w][i] = clean_url(sc_saved[w][i])
              /\ \E d \in scrapepage : d.url = sc_saved[w][i]
              /\ sc_saved[w][i] # clean_url(sc_req[w].url)
                    => sc_saved[w][i].netloc = clean_url(sc_req[w].url).netloc
        /\ sc_pages_saved[w] <= (IF sc_req[w].crawl THEN Max(1, sc_req[w].max_pages) ELSE 1)

\* page b links to page a
LinksTo(b, a) ==
    \E k \in DOMAIN Web[b].hrefs : clean_url(urljoin(b, Web[b].hrefs[k])) = a

\* page b links to a page at another network location than origin
LinksOutside(b, origin) ==
    \E k \in DOMAIN Web[b].hrefs :
        LET abs_url == clean_url(urljoin(b, Web[b].hrefs[k]))
        IN  StartsWithHttp(abs_url) /\ abs_url.netloc # origin

\* two crawls at once: one stopped by max_pages after two pages, with more to
\* visit; the other, under the default max_pages, has saved three pages and
\* emptied its frontier, having met links to pages it had visited, a link of
\* a page to itself and links to another network location
C10_Witness ==
    \E w, v \in Workers :
        /\ w # v
        /\ sc_pc[w] = "loop"
        /\ sc_req[w].crawl
        /\ sc_pages_saved[w] >= 2
        /\ sc_pages_saved[w] = Max(1, sc_req[w].max_pages)
        /\ sc_to_visit[w] # << >>
        /\ sc_pc[v] = "loop"
        /\ sc_req[v].crawl
        /\ sc_req[v].max_pages = DefaultMaxPages
        /\ sc_pages_saved[v] >= 3
        /\ sc_to_visit[v] = << >>
        /\ \E i, j \in DOMAIN sc_saved[v] :
              /\ i < j
              /\ LinksTo(sc_saved[v][j], sc_saved[v][i])
              /\ LinksTo(sc_saved[v][j], sc_saved[v][j])
              /\ LinksOutside(sc_saved[v][j], clean_url(sc_req[v].url).netloc)

\* the step of thread w ends its scrape request
ScrapeEnds(w) == sc_pc[w] # "idle" /\ sc_pc'[w] = "idle"

\* the request of thread w ends with 200, the frontier being empty or, in a
\* crawl, pages_saved having reached max(1, max_pages)
EndsDone(w) ==
    /\ sc_pc[w] = "loop"
    /\ resp'.status = 200
    /\ resp'.pages_saved = sc_pages_saved[w]
    /\ \/ sc_to_visit[w] = << >>
       \/ sc_req[w].crawl /\ sc_pages_saved[w] >= Max(1, sc_req[w].max_pages)

\* the request of thread w ends with the error of the page fetch that failed
EndsFetchFailed(w) ==
    /\ sc_pc[w] = "loop"
    /\ sc_to_visit[w] # << >>
    /\ ~fetch_page(clean_url(Head(sc_to_visit[w]))).ok
    /\ resp'.status = fetch_page(clean_url(Head(sc_to_visit[w]))).status
    /\ resp'.detail = fetch_page(clean_url(Head(sc_to_visit[w]))).detail

\* the request of thread w ends with the error of the write of the page to
\* the store
EndsStoreFailed(w) ==
    /\ sc_pc[w] = "save"
    /\ resp'.db = "down"
    /\ resp'.status = 500

\* C11 as claimed: a scrape request that has entered its loop leaves it,
\* whatever the links (cycles and self-links included), whatever max_pages
\* (zero and negative included) and whatever the other requests do meanwhile,
\* and it leaves it in one of three ways: with 200 and the frontier empty, with
\* 200 and pages_saved at max(1, max_pages), or with the error of a page fetch
\* that failed.
C11_ScrapeTerminates ==
    /\ \A w \in Workers : (sc_pc[w] # "idle") ~> (sc_pc[w] = "idle")
    /\ [][\A w \in Workers : ScrapeEnds(w) => EndsDone(w) \/ EndsFetchFailed(w)]_vars

\* C11 amended: a scrape request that has entered its loop leaves it, and it
\* leaves it in one of four ways: the three claimed, or with the error of a
\* write to the store that failed.
C11_ScrapeTerminatesOrStoreFails ==
    /\ \A w \in Workers : (sc_pc[w] # "idle") ~> (sc_pc[w] = "idle")
    /\ [][\A w \in Workers :
            ScrapeEnds(w) => EndsDone(w) \/ EndsFetchFailed(w) \/ EndsStoreFailed(w)]_vars

\* two crawls have ended: one answered 200 after saving three pages that link
\* to each other and to themselves and emptying its frontier; the other saved
\* a page and ended with the 404 of the next
C11_Witness ==
    \E w, v \in Workers :
        /\ w # v
        /\ sc_pc[w] = "idle"
        /\ sc_req[w].crawl
        /\ sc_pages_saved[w] >= 3
        /\ sc_to_visit[w] = << >>
        /\ \E i, j \in DOMAIN sc_saved[w] :
              /\ i < j
              /\ LinksTo(sc_saved[w][i], sc_saved[w][j])
              /\ LinksTo(sc_saved[w][j], sc_saved[w][i])
              /\ LinksTo(sc_saved[w][j], sc_saved[w][j])
        /\ sc_pc[v] = "idle"
        /\ sc_req[v].crawl
        /\ sc_pages_saved[v] >= 1
        /\ resp.op = "scrape"
        /\ resp.req = sc_req[v]
        /\ resp.status = 404
        /\ resp.db = "up"

====
